---- MODULE Spec2Model ----
(***************************************************************************)
(* LanguaAssist: the recording -> recognition -> translation -> playback   *)
(* pipeline of the App component (src/README.md, lines 95-177 and the      *)
(* controls of its JSX), with the language registry of src/src/types.ts.   *)
(*                                                                         *)
(* The browser and the endpoint are the environment: SpeechRecognition     *)
(* instances deliver result / error / end events, the completion endpoint  *)
(* resolves or rejects each pending request, the user presses the          *)
(* controls.  Every handler runs to completion on the one event loop, so   *)
(* every handler is one action.                                            *)
(***************************************************************************)
EXTENDS Naturals, Sequences, FiniteSets, Bags

\* ------------------------------------------------------------------ bounds
\* SpeechRecognition instances that recognitionRef no longer names and whose
\* capture session has not ended yet.
MaxOrphans == 1
\* Translation requests that can be pending at once.
MaxPending == 2

\* ------------------------------------------------------- language registry
\* The registry with Odia's tag mistyped as Kannada's.
SUPPORTED_LANGUAGES_DuplicateTag ==
  << [name |-> "Hindi",     code |-> "hi-IN"],
     [name |-> "Bengali",   code |-> "bn-IN"],
     [name |-> "Marathi",   code |-> "mr-IN"],
     [name |-> "Telugu",    code |-> "te-IN"],
     [name |-> "Tamil",     code |-> "ta-IN"],
     [name |-> "Gujarati",  code |-> "gu-IN"],
     [name |-> "Urdu",      code |-> "ur-IN"],
     [name |-> "Kannada",   code |-> "kn-IN"],
     [name |-> "Odia",      code |-> "kn-IN"],
     [name |-> "Malayalam", code |-> "ml-IN"] >>

\* name and code of each entry of src/src/types.ts, in order.
SUPPORTED_LANGUAGES ==
  << [name |-> "Hindi",     code |-> "hi-IN"],
     [name |-> "Bengali",   code |-> "bn-IN"],
     [name |-> "Marathi",   code |-> "mr-IN"],
     [name |-> "Telugu",    code |-> "te-IN"],
     [name |-> "Tamil",     code |-> "ta-IN"],
     [name |-> "Gujarati",  code |-> "gu-IN"],
     [name |-> "Urdu",      code |-> "ur-IN"],
     [name |-> "Kannada",   code |-> "kn-IN"],
     [name |-> "Odia",      code |-> "or-IN"],
     [name |-> "Malayalam", code |-> "ml-IN"] >>

\* useState<Language>(SUPPORTED_LANGUAGES[7]): index 7 from 0 is entry 8 from 1.
DefaultLangIndex == 8

\* The entries of the dropdown the model lets the user click.
LangChoices == {1, DefaultLangIndex}

\* ------------------------------------------------------------ environment
\* Transcripts the recognizer can finalize (never empty).
SpokenTexts == {"namaskara"}
\* Text payloads the endpoint can return; "" is the empty payload.
ResponseTexts == {"", "Hello"}
\* SpeechRecognitionErrorEvent.error codes.
ErrorCodes == {"no-speech"}

\* string | null: null is the empty option, a message m is <<m>>.
Null == <<>>
Some(m) == <<m>>

UnsupportedMessage == "Speech recognition is not supported in this browser."
TranslateFailedMessage == "Failed to translate. Please try again."
TranslationFallback == "Translation failed."

\* SpeechErrorMessage without the interpolated code.
SpeechErrorMessageNoCode(code) == "Speech recognition error"

\* `Speech recognition error: ${event.error}`
SpeechErrorMessage(code) == "Speech recognition error: " \o code

\* recognitionRef.current = null, as a record so that it compares with
\* the instances.
NoInstance ==
  [langIdx |-> 0, lang |-> "", phase |-> "none", locale |-> "",
   stopRequested |-> FALSE]

\* new SpeechRecognition() in the effect of a render with selectedLang = l.
\* langIdx: the selectedLang its handlers close over.
\* lang: the lang attribute ("" until it is assigned).
\* phase: "idle" (not started), "capturing" (started, nothing delivered yet),
\*        "delivered" (result or error delivered, end still to come).
\* locale: the lang attribute the running session was started with.
\* stopRequested: stop() was called on the session that is capturing.
NewInstance(l) ==
  [langIdx |-> l, lang |-> "", phase |-> "idle", locale |-> "",
   stopRequested |-> FALSE]

Started(r) == r.phase \in {"capturing", "delivered"}

\* No utterance handed to speechSynthesis yet.
NoUtterance == [text |-> "", lang |-> ""]

VARIABLES
  supported,       \* window.SpeechRecognition || window.webkitSpeechRecognition
  selectedLang,    \* index into SUPPORTED_LANGUAGES
  isRecording,
  transcript,
  translation,
  isTranslating,
  error,
  isDropdownOpen,
  recognitionRef,  \* the instance recognitionRef.current holds, or NoInstance
  orphans,         \* the bag of started instances the ref no longer holds
  pending,         \* the bag of generateContent calls awaiting the endpoint
  utterance        \* the last utterance handed to speechSynthesis.speak

vars == << supported, selectedLang, isRecording, transcript, translation,
           isTranslating, error, isDropdownOpen, recognitionRef, orphans,
           pending, utterance >>

\* ------------------------------------------------------ effect (106-134)
\* The effect of a render with selectedLang = l, as the values it leaves.
\* An instance that was replaced while started keeps calling back; one
\* that was not started never does.
EffectRef(l) == IF supported THEN NewInstance(l) ELSE recognitionRef

EffectOrphans ==
  IF supported /\ Started(recognitionRef)
    THEN orphans (+) SetToBag({recognitionRef})
    ELSE orphans

EffectError == IF supported THEN error ELSE Some(UnsupportedMessage)

\* --------------------------------------------------------------- mount
\* State after the first render and its effect (lines 96-134).
Init ==
  /\ supported \in BOOLEAN
  /\ selectedLang = DefaultLangIndex
  /\ isRecording = FALSE
  /\ transcript = ""
  /\ translation = ""
  /\ isTranslating = FALSE
  /\ isDropdownOpen = FALSE
  /\ error = IF supported THEN Null ELSE Some(UnsupportedMessage)
  /\ recognitionRef = IF supported THEN NewInstance(DefaultLangIndex)
                                   ELSE NoInstance
  /\ orphans = EmptyBag
  /\ pending = EmptyBag
  /\ utterance = NoUtterance

\* --------------------------------------------------- language picker
\* onClick of the dropdown button (line 228).
ToggleDropdown ==
  /\ isDropdownOpen' = ~isDropdownOpen
  /\ UNCHANGED << supported, selectedLang, isRecording, transcript,
                  translation, isTranslating, error, recognitionRef, orphans,
                  pending, utterance >>

\* onClick of a language entry (lines 249-252); the entries are rendered
\* only while the dropdown is open.  Setting the state to the entry it
\* already holds renders nothing new and runs no effect.
SelectLanguage(l) ==
  /\ isDropdownOpen
  /\ selectedLang' = l
  /\ isDropdownOpen' = FALSE
  /\ IF l # selectedLang
       THEN /\ BagCardinality(EffectOrphans) <= MaxOrphans
            /\ recognitionRef' = EffectRef(l)
            /\ orphans' = EffectOrphans
            /\ error' = EffectError
       ELSE UNCHANGED << error, recognitionRef, orphans >>
  /\ UNCHANGED << supported, isRecording, transcript, translation,
                  isTranslating, pending, utterance >>

\* ----------------------------------------------- toggleRecording (136-147)
\* recognitionRef.current?.stop(): a request to the instance the ref holds;
\* it means something only to a session that is still capturing.
StopRecording ==
  /\ recognitionRef' = IF recognitionRef.phase = "capturing"
                         THEN [recognitionRef EXCEPT !.stopRequested = TRUE]
                         ELSE recognitionRef
  /\ UNCHANGED << isRecording, transcript, translation, error >>

\* ResetForCapture without setTranslation(""): the old result stays on screen.
ResetForCaptureKeepsTranslation ==
  /\ transcript' = ""
  /\ translation' = translation
  /\ error' = Null

\* setTranscript(""); setTranslation(""); setError(null) (lines 140-142).
ResetForCapture ==
  /\ transcript' = ""
  /\ translation' = ""
  /\ error' = Null

\* StartCapture configuring the tag of the default language: a handler that
\* still sees the selectedLang of the first render.
StartCaptureFirstRenderLang ==
  LET code == SUPPORTED_LANGUAGES[DefaultLangIndex].code
  IN  IF recognitionRef = NoInstance
        THEN UNCHANGED << recognitionRef, isRecording >>
        ELSE IF recognitionRef.phase = "idle"
          THEN /\ recognitionRef' = [recognitionRef EXCEPT
                                       !.lang = code, !.locale = code,
                                       !.phase = "capturing"]
               /\ isRecording' = TRUE
          ELSE /\ recognitionRef' = [recognitionRef EXCEPT !.lang = code]
               /\ UNCHANGED isRecording

\* Lines 143-145, after the three setters: recognitionRef.current.lang = ...
\* throws a TypeError when the ref is null, and start() throws
\* InvalidStateError on an instance that is already started; in both cases
\* setIsRecording(true) is not reached.
StartCapture ==
  LET code == SUPPORTED_LANGUAGES[selectedLang].code
  IN  IF recognitionRef = NoInstance
        THEN UNCHANGED << recognitionRef, isRecording >>
        ELSE IF recognitionRef.phase = "idle"
          THEN /\ recognitionRef' = [recognitionRef EXCEPT
                                       !.lang = code, !.locale = code,
                                       !.phase = "capturing"]
               /\ isRecording' = TRUE
          ELSE /\ recognitionRef' = [recognitionRef EXCEPT !.lang = code]
               /\ UNCHANGED isRecording

StartRecording ==
  /\ ResetForCapture
  /\ StartCapture

\* ToggleRecording whose start branch drops the calls awaiting the endpoint.
ToggleRecordingCancels ==
  /\ IF isRecording
       THEN StopRecording /\ UNCHANGED << pending, isTranslating >>
       ELSE StartRecording /\ pending' = EmptyBag /\ isTranslating' = FALSE
  /\ UNCHANGED << supported, selectedLang, isDropdownOpen, orphans,
                  utterance >>

ToggleRecording ==
  /\ IF isRecording THEN StopRecording ELSE StartRecording
  /\ UNCHANGED << supported, selectedLang, isTranslating, isDropdownOpen,
                  orphans, pending, utterance >>

\* ------------------------------------------------- translateText (149-171)
\* The request generateContent carries: the prompt's two interpolations.
Request(text, fromLang) == [text |-> text, fromLang |-> fromLang]

\* The requests the model's inputs can produce.
Requests ==
  {Request(t, SUPPORTED_LANGUAGES[l].name) : t \in SpokenTexts, l \in LangChoices}

\* The synchronous part of translateText, up to the await.
IssueTranslation(text, fromLang) ==
  /\ isTranslating' = TRUE
  /\ pending' = pending (+) SetToBag({Request(text, fromLang)})

\* TranslationResult without the fallback: response.text as it comes.
TranslationResultRaw(r) == r

\* response.text || "Translation failed."
TranslationResult(r) == IF r # "" THEN r ELSE TranslationFallback

\* The await resolves for a pending call with request q: the rest of the
\* try body, then finally.
TranslateResolved(q, r) ==
  /\ BagIn(q, pending)
  /\ translation' = TranslationResult(r)
  /\ isTranslating' = FALSE
  /\ pending' = pending (-) SetToBag({q})
  /\ UNCHANGED << supported, selectedLang, isRecording, transcript, error,
                  isDropdownOpen, recognitionRef, orphans, utterance >>

\* CatchTranslation that also blanks the shown translation.
CatchTranslationClears ==
  /\ error' = Some(TranslateFailedMessage)
  /\ translation' = ""
  /\ UNCHANGED transcript

\* The catch block (lines 165-167).
CatchTranslation ==
  /\ error' = Some(TranslateFailedMessage)
  /\ UNCHANGED << translation, transcript >>

\* TranslateRejected that sends the request again instead of giving up.
TranslateRejectedRetries(q) ==
  /\ BagIn(q, pending)
  /\ CatchTranslation
  /\ UNCHANGED << isTranslating, pending >>
  /\ UNCHANGED << supported, selectedLang, isRecording, isDropdownOpen,
                  recognitionRef, orphans, utterance >>

\* The await rejects for a pending call with request q: catch, then finally.
TranslateRejected(q) ==
  /\ BagIn(q, pending)
  /\ CatchTranslation
  /\ isTranslating' = FALSE
  /\ pending' = pending (-) SetToBag({q})
  /\ UNCHANGED << supported, selectedLang, isRecording, isDropdownOpen,
                  recognitionRef, orphans, utterance >>

\* ---------------------------------------------- adapter events (114-130)
\* The started instances: the one the ref holds (cur) and the orphans.
Sessions ==
  (IF Started(recognitionRef) THEN {[cur |-> TRUE, obj |-> recognitionRef]}
                              ELSE {})
  \cup {[cur |-> FALSE, obj |-> o] : o \in BagToSet(orphans)}

\* Instance w.obj becomes r (r = NoInstance: it is gone).
Becomes(w, r) ==
  IF w.cur
    THEN /\ recognitionRef' = r
         /\ UNCHANGED orphans
    ELSE /\ UNCHANGED recognitionRef
         /\ orphans' = IF r = NoInstance
                         THEN orphans (-) SetToBag({w.obj})
                         ELSE (orphans (-) SetToBag({w.obj})) (+) SetToBag({r})

\* The capture of a session is over once it has delivered.
Delivered(r) == [r EXCEPT !.phase = "delivered", !.stopRequested = FALSE]

\* OnResult reading the language selected now instead of its closure's.
OnResultSelectedNow(w, t) ==
  /\ w \in Sessions
  /\ w.obj.phase = "capturing"
  /\ BagCardinality(pending) < MaxPending
  /\ transcript' = t
  /\ isRecording' = FALSE
  /\ isTranslating' = TRUE
  /\ pending' = pending (+) SetToBag({[text |-> t,
                  fromLang |-> SUPPORTED_LANGUAGES[selectedLang].name]})
  /\ Becomes(w, [w.obj EXCEPT !.phase = "delivered", !.stopRequested = FALSE])
  /\ UNCHANGED << supported, selectedLang, translation, error,
                  isDropdownOpen, utterance >>

\* onresult of instance w: the closure's selectedLang is the one the
\* instance was created for.
OnResult(w, t) ==
  /\ w \in Sessions
  /\ w.obj.phase = "capturing"
  /\ BagCardinality(pending) < MaxPending
  /\ transcript' = t
  /\ isRecording' = FALSE
  /\ IssueTranslation(t, SUPPORTED_LANGUAGES[w.obj.langIdx].name)
  /\ Becomes(w, Delivered(w.obj))
  /\ UNCHANGED << supported, selectedLang, translation, error,
                  isDropdownOpen, utterance >>

\* OnError without setIsRecording(false).
OnErrorKeepsRecording(w, c) ==
  /\ w \in Sessions
  /\ w.obj.phase = "capturing"
  /\ error' = Some(SpeechErrorMessage(c))
  /\ Becomes(w, [w.obj EXCEPT !.phase = "delivered", !.stopRequested = FALSE])
  /\ UNCHANGED << supported, selectedLang, isRecording, transcript,
                  translation, isTranslating, isDropdownOpen, pending,
                  utterance >>

OnError(w, c) ==
  /\ w \in Sessions
  /\ w.obj.phase = "capturing"
  /\ error' = Some(SpeechErrorMessage(c))
  /\ isRecording' = FALSE
  /\ Becomes(w, Delivered(w.obj))
  /\ UNCHANGED << supported, selectedLang, transcript, translation,
                  isTranslating, isDropdownOpen, pending, utterance >>

\* OnEnd that also clears the error slot.
OnEndClearsError(w) ==
  /\ w \in Sessions
  /\ isRecording' = FALSE
  /\ error' = Null
  /\ Becomes(w, IF w.cur
                  THEN [w.obj EXCEPT !.phase = "idle", !.locale = "",
                                     !.stopRequested = FALSE]
                  ELSE NoInstance)
  /\ UNCHANGED << supported, selectedLang, transcript, translation,
                  isTranslating, isDropdownOpen, pending, utterance >>

\* onend of instance w: the session is over; the object can be started
\* again if the ref still holds it, and is unreachable otherwise.
OnEnd(w) ==
  /\ w \in Sessions
  /\ isRecording' = FALSE
  /\ Becomes(w, IF w.cur
                  THEN [w.obj EXCEPT !.phase = "idle", !.locale = "",
                                     !.stopRequested = FALSE]
                  ELSE NoInstance)
  /\ UNCHANGED << supported, selectedLang, transcript, translation,
                  isTranslating, error, isDropdownOpen, pending, utterance >>

\* -------------------------------------------------- playback (173-177)
\* speakText voicing the text in the locale of the selected language.
speakTextSelectedLocale(text) ==
  [text |-> text, lang |-> SUPPORTED_LANGUAGES[selectedLang].code]

speakText(text) == [text |-> text, lang |-> "en-US"]

\* The playback button is rendered only when translation is truthy
\* (lines 324-331); its onClick is speakText(translation).
PlaybackPress ==
  /\ translation # ""
  /\ utterance' = speakText(translation)
  /\ UNCHANGED << supported, selectedLang, isRecording, transcript,
                  translation, isTranslating, error, isDropdownOpen,
                  recognitionRef, orphans, pending >>

\* ------------------------------------------------------------------ Next
Next ==
  \/ ToggleDropdown
  \/ \E l \in LangChoices : SelectLanguage(l)
  \/ ToggleRecording
  \/ \E w \in Sessions : \E t \in SpokenTexts : OnResult(w, t)
  \/ \E w \in Sessions : \E c \in ErrorCodes : OnError(w, c)
  \/ \E w \in Sessions : OnEnd(w)
  \/ \E q \in Requests : \E r \in ResponseTexts : TranslateResolved(q, r)
  \/ \E q \in Requests : TranslateRejected(q)
  \/ PlaybackPress

Spec == Init /\ [][Next]_vars

\* =================================================================
\* Properties
\* =================================================================

\* A translation call completes (resolves or rejects).
TranslationCompletes ==
  \/ \E q \in Requests : \E r \in ResponseTexts : TranslateResolved(q, r)
  \/ \E q \in Requests : TranslateRejected(q)

\* The instances whose session is started and has not ended.
StartedCount ==
  (IF Started(recognitionRef) THEN 1 ELSE 0) + BagCardinality(orphans)

\* C1: a record toggle performed while isRecording is false leaves
\* transcript = "", translation = "" and error = null, whatever they were
\* and whether or not start() then succeeds.
C1_StartClearsDisplay ==
  [][(~isRecording /\ ToggleRecording)
       => (transcript' = "" /\ translation' = "" /\ error' = Null)]_vars

\* A capture was started after a translation had been shown and played:
\* the display is blank and the session is capturing.
C1_Witness ==
  /\ isRecording
  /\ recognitionRef.phase = "capturing"
  /\ utterance.text # ""
  /\ transcript = "" /\ translation = "" /\ error = Null

\* C2: at most one translation request is pending at any time.
C2_AtMostOnePending == BagCardinality(pending) <= 1

\* C3: every translation call that completes, by resolving or by
\* rejecting, takes isTranslating from true to false (one InFlight -> Idle
\* transition per attempt).
C3_OneTransitionPerAttempt ==
  [][TranslationCompletes => (isTranslating /\ ~isTranslating')]_vars

\* C4: a response resolving with text r leaves translation = r when r is
\* not empty and "Translation failed." when it is, and leaves error alone.
C4_ResolvedTranslation ==
  [][\A q \in Requests : \A r \in ResponseTexts :
       TranslateResolved(q, r)
         => /\ translation' = (IF r = "" THEN "Translation failed." ELSE r)
            /\ error' = error]_vars

\* The fallback is shown after a real translation had been shown and played.
C4_Witness ==
  /\ translation = "Translation failed."
  /\ utterance.text = "Hello"

\* C5: a rejected request sets error to the fixed message, keeps
\* translation and transcript, and leaves isTranslating false.
C5_RejectedKeepsDisplay ==
  [][(\E q \in Requests : TranslateRejected(q))
       => /\ error' = Some("Failed to translate. Please try again.")
          /\ translation' = translation
          /\ transcript' = transcript
          /\ ~isTranslating']_vars

\* The failure message is up next to a transcript and a translation that
\* were kept.
C5_Witness ==
  /\ error = Some("Failed to translate. Please try again.")
  /\ translation # ""
  /\ transcript # ""
  /\ ~isTranslating

\* C6: playback can be pressed only while translation is not empty, and a
\* press hands speechSynthesis exactly translation with lang en-US and
\* changes nothing of the session.
C6_PlaybackSpeaksTranslation ==
  [][/\ (ENABLED PlaybackPress) => translation # ""
     /\ PlaybackPress
          => /\ translation # ""
             /\ utterance' = [text |-> translation, lang |-> "en-US"]
             /\ UNCHANGED << selectedLang, isRecording, transcript,
                             translation, isTranslating, error >>]_vars

\* The current translation has been handed to the synthesizer.
C6_Witness ==
  /\ translation # ""
  /\ utterance = [text |-> translation, lang |-> "en-US"]

\* C7: without a speech-to-text capability every record toggle ends with
\* isRecording false and error set to the unavailability message.
C7_ToggleReportsUnavailable ==
  [][(~supported /\ ToggleRecording)
       => (~isRecording' /\ error' = Some(UnsupportedMessage))]_vars

\* C8: at most one capture session is started and not yet ended.
C8_AtMostOneSession == StartedCount <= 1

\* C9: the locale tags of the entries of SUPPORTED_LANGUAGES are pairwise
\* distinct, so that the tag of the selected language names that entry and
\* no other.
C9_DistinctLocaleTags ==
  /\ \A i \in DOMAIN SUPPORTED_LANGUAGES : \A j \in DOMAIN SUPPORTED_LANGUAGES :
       i # j => SUPPORTED_LANGUAGES[i].code # SUPPORTED_LANGUAGES[j].code
  /\ \A i \in DOMAIN SUPPORTED_LANGUAGES :
       SUPPORTED_LANGUAGES[i].code = SUPPORTED_LANGUAGES[selectedLang].code
         => i = selectedLang

\* A capture runs with the tag of a picked entry, and that tag names the
\* selected entry and no other.
C9_Witness ==
  /\ selectedLang # DefaultLangIndex
  /\ recognitionRef.phase = "capturing"
  /\ \A i \in DOMAIN SUPPORTED_LANGUAGES :
       SUPPORTED_LANGUAGES[i].code = recognitionRef.locale => i = selectedLang

\* C10: isTranslating implies that a request carrying the current
\* transcript is pending.
C10_InFlightIsForTranscript ==
  isTranslating => \E q \in BagToSet(pending) : q.text = transcript

\* C11: while a translation request is pending, isTranslating is true.
C11_PendingIsInFlight == pending # EmptyBag => isTranslating

\* The sessions that are capturing: started, and neither result, error nor
\* end delivered.
Capturing == {w \in Sessions : w.obj.phase = "capturing"}

\* C12: isRecording implies that some instance has a capture session that
\* was started and has delivered neither result, error nor end.
C12_RecordingHasActiveSession == isRecording => Capturing # {}

\* Recording goes on in a session the ref no longer holds: the language was
\* changed after the capture started.
C12_Witness ==
  /\ isRecording
  /\ recognitionRef.phase = "idle"
  /\ \E o \in BagToSet(orphans) : o.phase = "capturing"

\* The registry entry a locale tag names.
LanguageOfTag(tag) ==
  CHOOSE i \in DOMAIN SUPPORTED_LANGUAGES : SUPPORTED_LANGUAGES[i].code = tag

\* C13 as stated: a finalized transcript t leaves isRecording false and
\* transcript = t, and issues in the same step one request carrying t and
\* the display name of the language selected when the result arrives.
C13_ResultTranslatesFromSelected ==
  [][\A w \in Sessions : \A t \in SpokenTexts :
       OnResult(w, t)
         => /\ ~isRecording'
            /\ transcript' = t
            /\ isTranslating'
            /\ pending' = pending (+) SetToBag({[text |-> t,
                 fromLang |-> SUPPORTED_LANGUAGES[selectedLang].name]})]_vars

\* C13 as amended: the request carries the display name of the language
\* whose locale tag the reporting session was started with.
C13_ResultTranslatesFromCaptureLanguage ==
  [][\A w \in Sessions : \A t \in SpokenTexts :
       OnResult(w, t)
         => /\ ~isRecording'
            /\ transcript' = t
            /\ isTranslating'
            /\ pending' = pending (+) SetToBag({[text |-> t,
                 fromLang |->
                   SUPPORTED_LANGUAGES[LanguageOfTag(w.obj.locale)].name]})]_vars

\* A result has arrived from a session started in a language that is no
\* longer the selected one, and its request is pending.
C13_Witness ==
  /\ ~isRecording
  /\ isTranslating
  /\ transcript \in SpokenTexts
  /\ \E q \in BagToSet(pending) :
       /\ q.text = transcript
       /\ q.fromLang # SUPPORTED_LANGUAGES[selectedLang].name

\* C14: an adapter error with code c leaves isRecording false and error =
\* "Speech recognition error: c", keeps transcript and translation, and
\* issues no translation request.
C14_ErrorIsReported ==
  [][\A w \in Sessions : \A c \in ErrorCodes :
       OnError(w, c)
         => /\ ~isRecording'
            /\ error' = Some("Speech recognition error: " \o c)
            /\ UNCHANGED << transcript, translation, isTranslating,
                            pending >>]_vars

\* An error has been delivered and reported; its session has not ended.
C14_Witness ==
  /\ ~isRecording
  /\ error = Some("Speech recognition error: no-speech")
  /\ recognitionRef.phase = "delivered"
  /\ pending = EmptyBag

\* C15: a session end leaves isRecording false, keeps transcript,
\* translation, error and isTranslating, and issues no translation request.
C15_EndOnlyStopsRecording ==
  [][\A w \in Sessions :
       OnEnd(w)
         => /\ ~isRecording'
            /\ UNCHANGED << transcript, translation, error, isTranslating,
                            pending >>]_vars

\* A capture was started and its session has ended with no transcript and
\* no error on display: nothing but isRecording changed.
C15_Witness ==
  /\ ~isRecording
  /\ ~isTranslating
  /\ error = Null
  /\ transcript = ""
  /\ recognitionRef.phase = "idle"
  /\ recognitionRef.lang # ""
  /\ orphans = EmptyBag
  /\ pending = EmptyBag

\* C16: a record toggle performed while isRecording is true delivers the
\* stop request to the session that is capturing: toggleRecording calls
\* stop() on the instance recognitionRef holds, so whenever isRecording is
\* true every capturing session is that instance or has its stop request
\* already.
C16_StopReachesActiveSession ==
  isRecording => \A w \in Capturing : w.cur \/ w.obj.stopRequested

\* The bag of started sessions, each with the locale it runs with.
StartedSessions ==
  orphans (+) (IF Started(recognitionRef) THEN SetToBag({recognitionRef})
                                          ELSE EmptyBag)

\* C17: selecting a language leaves every started session as it is, with
\* the locale tag it was started with, and starts nothing; a capture that
\* a toggle starts runs with the tag of the language selected at the toggle;
\* no step gives a started session another tag.
C17_LocaleFixedAtStart ==
  [][/\ \A l \in LangChoices :
          SelectLanguage(l)
            => /\ StartedSessions' = StartedSessions
               /\ l # selectedLang /\ supported
                    => (recognitionRef'.phase = "idle"
                          /\ recognitionRef'.locale = "")
     /\ (ToggleRecording /\ recognitionRef.phase = "idle"
           /\ recognitionRef'.phase = "capturing")
          => recognitionRef'.locale = SUPPORTED_LANGUAGES[selectedLang].code
     /\ \A x \in BagToSet(StartedSessions') :
          x.locale \in {y.locale : y \in BagToSet(StartedSessions)}
                         \cup {SUPPORTED_LANGUAGES[selectedLang].code}]_vars

\* The language was changed during a capture, and the next capture was
\* started: the old session runs with its own tag, the new one with the
\* tag of the newly selected language.
C17_Witness ==
  /\ recognitionRef.phase = "capturing"
  /\ recognitionRef.locale = SUPPORTED_LANGUAGES[selectedLang].code
  /\ \E o \in BagToSet(orphans) :
       /\ Started(o)
       /\ o.locale # recognitionRef.locale
       /\ o.locale = SUPPORTED_LANGUAGES[o.langIdx].code

\* C18: a record toggle, starting or stopping, leaves every pending
\* translation request pending, and every pending request can still
\* resolve with any response, whatever has been recorded since.
C18_ToggleDoesNotCancel ==
  [][/\ ToggleRecording => pending' = pending
     /\ \A q \in BagToSet(pending) : \A r \in ResponseTexts :
          ENABLED TranslateResolved(q, r)]_vars

\* A new recording is running with the transcript cleared, and the
\* response to an earlier request has been written to translation since.
C18_Witness ==
  /\ isRecording
  /\ transcript = ""
  /\ translation # ""

\* C19: in a state with isRecording and isTranslating both false, a record
\* toggle starts a capture: isRecording becomes true.
C19_IdleToggleStartsCapture ==
  [][(~isRecording /\ ~isTranslating /\ ToggleRecording) => isRecording']_vars

\* A finalized transcript is delivered.
ResultDelivered ==
  \E w \in Sessions : \E t \in SpokenTexts : OnResult(w, t)

\* C20: a finalized transcript issues exactly one request, a completed
\* call (resolved or rejected) leaves with nothing issued in its place, and
\* no other step issues or drops a request.
C20_OneRequestPerResult ==
  [][/\ ResultDelivered
          => BagCardinality(pending') = BagCardinality(pending) + 1
     /\ TranslationCompletes
          => BagCardinality(pending') + 1 = BagCardinality(pending)
     /\ ~ResultDelivered /\ ~TranslationCompletes
          => pending' = pending]_vars

\* A request was rejected and nothing was sent in its place.
C20_Witness ==
  /\ error = Some("Failed to translate. Please try again.")
  /\ transcript \in SpokenTexts
  /\ pending = EmptyBag
  /\ ~isTranslating

\* C21: when a session delivers its result, the request it issues names
\* the language of one registry entry, and the locale tag the session was
\* started with is the tag of that same entry, whatever is selected by then.
C21_PromptLanguageMatchesCaptureLocale ==
  [][\A w \in Sessions : \A t \in SpokenTexts :
       OnResult(w, t)
         => \E i \in DOMAIN SUPPORTED_LANGUAGES :
              /\ SUPPORTED_LANGUAGES[i].code = w.obj.locale
              /\ CopiesIn(Request(t, SUPPORTED_LANGUAGES[i].name), pending')
                   = CopiesIn(Request(t, SUPPORTED_LANGUAGES[i].name), pending) + 1
              /\ BagCardinality(pending') = BagCardinality(pending) + 1]_vars

\* A session that the ref no longer holds has delivered its result after
\* another language was selected: its request names the language of its
\* own locale tag, not the selected one.
C21_Witness ==
  \E o \in BagToSet(orphans) :
    /\ o.phase = "delivered"
    /\ o.locale # SUPPORTED_LANGUAGES[selectedLang].code
    /\ \E q \in BagToSet(pending) :
         /\ q.fromLang = SUPPORTED_LANGUAGES[LanguageOfTag(o.locale)].name
         /\ q.fromLang # SUPPORTED_LANGUAGES[selectedLang].name

\* C22: with the capability present, whenever isRecording is false the
\* instance recognitionRef holds has no session that was started and has
\* not ended, so that start() in an Idle toggle cannot find it started.
C22_IdleRefHasNoSession ==
  (supported /\ ~isRecording) => ~Started(recognitionRef)

====
